---------------------------- MODULE Spec2Model ----------------------------
(***************************************************************************)
(* Model of the command-menu config tree of src/__init__.py:               *)
(* CmdConfigBase (load/save orchestration), ConfigObject.from_json_obj     *)
(* (dispatch on the JSON type), CmdMenuConfig, CmdTextConfig, CmdTextLine  *)
(* and CmdEntryConfig.                                                     *)
(*                                                                         *)
(* Python strings are sequences of one-character strings.  A decoded JSON  *)
(* value is a record [t, s, ks, xs]: t is the Python type ("str", "list",  *)
(* "dict", "int", "bool", "NoneType"), s the characters of a string (or    *)
(* the literal of a scalar), ks the keys of a dict in insertion order and  *)
(* xs the elements of a list or the values of a dict (parallel to ks).     *)
(* A ConfigObject is a record [cls, key, cmd, read, items, lines, origin,  *)
(* text]; key is <<>> for None and <<k>> for the string k.                 *)
(***************************************************************************)
EXTENDS Integers, Sequences, FiniteSets, TLC

VARIABLES
  file_path,   \* CmdConfigBase.file_path: <<>> (None) or <<path>>
  root_menu,   \* CmdConfigBase.root_menu
  fs,          \* the resource at file_path: NoFile, or the JSON it decodes to
  env,         \* the world the command runner reads: decides its output
  calls,       \* the command lines run by the last operation, in order
  op,          \* the last operation
  err,         \* the exception it raised ("" when it returned)
  ret,         \* the value it returned (a Python value, as a JSON record)
  retKey,      \* the key part of a to_json_obj() result
  key,         \* input of a constructor: the key
  data,        \* input of a constructor: the decoded JSON value
  obj          \* the ConfigObject the constructor returned

vars == <<file_path, root_menu, fs, env, calls, op, err, ret, retKey, key, data, obj>>

---------------------------------------------------------------------------
(* Python values *)

\* F(v), with v evaluated once
Let(v, F(_)) == CHOOSE y \in {F(x) : x \in {v}} : TRUE

None == <<>>
Some(k) == <<k>>

JStr(s) == [t |-> "str", s |-> s, ks |-> <<>>, xs |-> <<>>]
JList(xs) == [t |-> "list", s |-> <<>>, ks |-> <<>>, xs |-> xs]
JDict(ks, xs) == [t |-> "dict", s |-> <<>>, ks |-> ks, xs |-> xs]
JInt(lit) == [t |-> "int", s |-> lit, ks |-> <<>>, xs |-> <<>>]
JBool(lit) == [t |-> "bool", s |-> lit, ks |-> <<>>, xs |-> <<>>]
JNull == [t |-> "NoneType", s |-> <<>>, ks |-> <<>>, xs |-> <<>>]
\* a text that json.load / json.loads cannot decode
Malformed == [t |-> "malformed", s |-> <<>>, ks |-> <<>>, xs |-> <<>>]
\* no file at file_path
NoFile == [t |-> "nofile", s |-> <<>>, ks |-> <<>>, xs |-> <<>>]
\* no value (an operation that returned nothing)
NoValue == [t |-> "novalue", s |-> <<>>, ks |-> <<>>, xs |-> <<>>]

NoObject ==
  [cls |-> "none", key |-> None, cmd |-> <<>>, read |-> FALSE,
   items |-> <<>>, lines |-> <<>>, origin |-> NoValue, text |-> <<>>]

UpperCase ==
  <<"A","B","C","D","E","F","G","H","I","J","K","L","M",
    "N","O","P","Q","R","S","T","U","V","W","X","Y","Z">>
LowerCase ==
  <<"a","b","c","d","e","f","g","h","i","j","k","l","m",
    "n","o","p","q","r","s","t","u","v","w","x","y","z">>

\* str.lower() on one character
LowerChar(c) ==
  IF \E i \in DOMAIN UpperCase : UpperCase[i] = c
    THEN LowerCase[CHOOSE i \in DOMAIN UpperCase : UpperCase[i] = c]
    ELSE c

\* str.lower()
StrLower(s) == [i \in 1..Len(s) |-> LowerChar(s[i])]

\* s[-n:]
PyLast(s, n) == IF Len(s) <= n THEN s ELSE SubSeq(s, Len(s) - n + 1, Len(s))

\* s[:-n]
PyDropLast(s, n) == IF Len(s) <= n THEN <<>> ELSE SubSeq(s, 1, Len(s) - n)

AmpRead == <<"&","r","e","a","d">>

---------------------------------------------------------------------------
(* CmdEntryConfig *)

\* a plausible slip: the suffix is compared without lower()
CmdEntryConfig_CaseSensitive(k, d) ==
  IF PyLast(d, 5) = AmpRead
    THEN [NoObject EXCEPT !.cls = "CmdEntryConfig", !.key = k,
                          !.cmd = PyDropLast(d, 5), !.read = TRUE]
    ELSE [NoObject EXCEPT !.cls = "CmdEntryConfig", !.key = k,
                          !.cmd = d, !.read = FALSE]

\* a plausible slip: the flag is set but the suffix is left on the command
CmdEntryConfig_NoStrip(k, d) ==
  IF PyLast(StrLower(d), 5) = AmpRead
    THEN [NoObject EXCEPT !.cls = "CmdEntryConfig", !.key = k,
                          !.cmd = d, !.read = TRUE]
    ELSE [NoObject EXCEPT !.cls = "CmdEntryConfig", !.key = k,
                          !.cmd = d, !.read = FALSE]

\* CmdEntryConfig.__init__(key, data), data a str
CmdEntryConfig(k, d) ==
  IF PyLast(StrLower(d), 5) = AmpRead
    THEN [NoObject EXCEPT !.cls = "CmdEntryConfig", !.key = k,
                          !.cmd = PyDropLast(d, 5), !.read = TRUE]
    ELSE [NoObject EXCEPT !.cls = "CmdEntryConfig", !.key = k,
                          !.cmd = d, !.read = FALSE]

\* a plausible slip: the suffix is not put back
CmdEntryToJson_NoSuffix(o) == JStr(o.cmd)

\* CmdEntryConfig.to_json_obj(): the value part
CmdEntryToJson(o) == JStr(IF o.read THEN o.cmd \o AmpRead ELSE o.cmd)

---------------------------------------------------------------------------
(* CmdTextLine *)

\* subprocess.getoutput(commandLine): the captured output is whatever the
\* world makes the command print; here the world's mark and the command line
RunnerOutput(commandLine, e) == <<e, ":">> \o commandLine

RECURSIVE Join(_, _)
\* sep.join(parts)
Join(parts, sep) ==
  IF Len(parts) = 0 THEN <<>>
  ELSE IF Len(parts) = 1 THEN parts[1]
  ELSE parts[1] \o sep \o Join(Tail(parts), sep)

RECURSIVE PyRepr(_)
\* repr(v) of a decoded JSON value (strings without quotes or escapes in them)
PyRepr(v) ==
  CASE v.t = "str" -> <<"'">> \o v.s \o <<"'">>
    [] v.t = "int" -> v.s
    [] v.t = "bool" -> v.s
    [] v.t = "NoneType" -> <<"N","o","n","e">>
    [] v.t = "list" ->
         <<"[">> \o Join([i \in 1..Len(v.xs) |-> PyRepr(v.xs[i])], <<",", " ">>)
         \o <<"]">>
    [] v.t = "dict" ->
         <<"{">>
         \o Join([i \in 1..Len(v.ks) |->
                    <<"'">> \o v.ks[i] \o <<"'", ":", " ">> \o PyRepr(v.xs[i])],
                 <<",", " ">>)
         \o <<"}">>

\* str(v) as the f-string of CmdTextLine.update formats a mapping's value
PyFormat(v) == IF v.t = "str" THEN v.s ELSE PyRepr(v)

\* f"{key} {self.origin[key]}" for each key of the mapping, in order
CommandLines(origin) ==
  [i \in 1..Len(origin.ks) |-> origin.ks[i] \o <<" ">> \o PyFormat(origin.xs[i])]

\* a plausible slip: the outputs of the first resolution are kept
TextLineUpdate_Cached(o, e) ==
  IF o.origin.t = "str"
    THEN [obj |-> [o EXCEPT !.text = <<o.origin.s>>], calls |-> <<>>]
    ELSE IF o.origin.t = "dict" /\ o.text = <<>>
      THEN [obj |-> [o EXCEPT !.text =
                        [i \in 1..Len(o.origin.ks) |->
                            RunnerOutput(CommandLines(o.origin)[i], e)]],
            calls |-> CommandLines(o.origin)]
      ELSE [obj |-> o, calls |-> <<>>]

\* CmdTextLine.update(): the line after it, and the command lines it ran
TextLineUpdate(o, e) ==
  IF o.origin.t = "str"
    THEN [obj |-> [o EXCEPT !.text = <<o.origin.s>>], calls |-> <<>>]
    ELSE IF o.origin.t = "dict"
      THEN [obj |-> [o EXCEPT !.text =
                        [i \in 1..Len(o.origin.ks) |->
                            RunnerOutput(CommandLines(o.origin)[i], e)]],
            calls |-> CommandLines(o.origin)]
      ELSE [obj |-> o, calls |-> <<>>]

\* a plausible slip: the constructor leaves the resolution to the first render
CmdTextLine_Lazy(entry, e) ==
  [obj |-> [NoObject EXCEPT !.cls = "CmdTextLine", !.origin = entry],
   calls |-> <<>>]

\* CmdTextLine.__init__(entry): no check of entry's type, then update()
CmdTextLine(entry, e) ==
  TextLineUpdate([NoObject EXCEPT !.cls = "CmdTextLine", !.origin = entry], e)

NewLine == <<"\n">>

\* CmdTextLine.__str__(): update(), then the text joined by newlines
TextLineStr(o, e) ==
  Let(TextLineUpdate(o, e), LAMBDA u :
    [obj |-> u.obj, calls |-> u.calls, ret |-> Join(u.obj.text, NewLine)])

\* CmdTextLine.to_json_obj(): the value part
TextLineToJson(o) == o.origin

---------------------------------------------------------------------------
(* CmdTextConfig *)

\* what "for item in data" yields: the elements of a list, the characters
\* of a str, the keys of a dict; any other value is not iterable
PyIter(d) ==
  CASE d.t = "list" -> [ok |-> TRUE, xs |-> d.xs]
    [] d.t = "str" -> [ok |-> TRUE, xs |-> [i \in 1..Len(d.s) |-> JStr(<<d.s[i]>>)]]
    [] d.t = "dict" -> [ok |-> TRUE, xs |-> [i \in 1..Len(d.ks) |-> JStr(d.ks[i])]]
    [] OTHER -> [ok |-> FALSE, xs |-> <<>>]

RECURSIVE Concat(_)
\* the concatenation of a sequence of sequences
Concat(ss) == IF Len(ss) = 0 THEN <<>> ELSE ss[1] \o Concat(Tail(ss))

\* CmdTextConfig.__init__(key, data): no check of data's type
CmdTextConfig(k, d, e) ==
  Let(PyIter(d), LAMBDA it :
    IF ~it.ok
      THEN [err |-> "TypeError:NotIterable", obj |-> NoObject, calls |-> <<>>]
      ELSE [err |-> "",
            obj |-> [NoObject EXCEPT !.cls = "CmdTextConfig", !.key = k,
                        !.lines = [i \in 1..Len(it.xs) |-> CmdTextLine(it.xs[i], e).obj]],
            calls |-> Concat([i \in 1..Len(it.xs) |-> CmdTextLine(it.xs[i], e).calls])])

\* CmdTextConfig.to_json_obj(): the value part
TextConfigToJson(o) == JList([i \in 1..Len(o.lines) |-> TextLineToJson(o.lines[i])])

RECURSIVE StrLines(_, _, _)
\* map(str, self.lines) from line i on: each line is updated as it is rendered
StrLines(ls, i, e) ==
  IF i > Len(ls) THEN [lines |-> <<>>, calls |-> <<>>, parts |-> <<>>]
  ELSE Let(TextLineStr(ls[i], e), LAMBDA r :
         Let(StrLines(ls, i + 1, e), LAMBDA rest :
           [lines |-> <<r.obj>> \o rest.lines,
            calls |-> r.calls \o rest.calls,
            parts |-> <<r.ret>> \o rest.parts]))

\* CmdTextConfig.__str__()
TextConfigStr(o, e) ==
  Let(StrLines(o.lines, 1, e), LAMBDA r :
    [obj |-> [o EXCEPT !.lines = r.lines], calls |-> r.calls,
     ret |-> Join(r.parts, NewLine)])

---------------------------------------------------------------------------
(* ConfigObject.from_json_obj and CmdMenuConfig *)

RECURSIVE FromJsonObj(_, _, _)
RECURSIVE MenuItems(_, _, _)

\* the loop of CmdMenuConfig.__init__ from entry i on: the first exception
\* ends it; the commands run before it have run
MenuItems(d, i, e) ==
  IF i > Len(d.ks) THEN [err |-> "", items |-> <<>>, calls |-> <<>>]
  ELSE Let(FromJsonObj(Some(d.ks[i]), d.xs[i], e), LAMBDA r :
         IF r.err # ""
           THEN [err |-> r.err, items |-> <<>>, calls |-> r.calls]
           ELSE Let(MenuItems(d, i + 1, e), LAMBDA rest :
                  [err |-> rest.err,
                   items |-> <<r.obj>> \o rest.items,
                   calls |-> r.calls \o rest.calls]))

\* CmdMenuConfig.__init__(key, data)
CmdMenuConfig(k, d, e) ==
  IF d.t = "dict"
    THEN Let(MenuItems(d, 1, e), LAMBDA r :
           IF r.err # ""
             THEN [err |-> r.err, obj |-> NoObject, calls |-> r.calls]
             ELSE [err |-> "",
                   obj |-> [NoObject EXCEPT !.cls = "CmdMenuConfig", !.key = k,
                                            !.items = r.items],
                   calls |-> r.calls])
    ELSE [err |-> "TypeError:InvalidMenuData", obj |-> NoObject, calls |-> <<>>]

\* ConfigObject.from_json_obj(key, json_obj)
FromJsonObj(k, j, e) ==
  IF j.t = "str"
    THEN [err |-> "", obj |-> CmdEntryConfig(k, j.s), calls |-> <<>>]
  ELSE IF j.t = "list" THEN CmdTextConfig(k, j, e)
  ELSE IF j.t = "dict" THEN CmdMenuConfig(k, j, e)
  ELSE [err |-> "TypeError:InvalidNodeType", obj |-> NoObject, calls |-> <<>>]

---------------------------------------------------------------------------
(* to_json_obj *)

\* content[k] = v on an insertion-ordered dict
DictSet(d, k, v) ==
  IF \E i \in 1..Len(d.ks) : d.ks[i] = k
    THEN [d EXCEPT !.xs[CHOOSE i \in 1..Len(d.ks) : d.ks[i] = k] = v]
    ELSE [d EXCEPT !.ks = Append(@, k), !.xs = Append(@, v)]

RECURSIVE ToJson(_)
RECURSIVE MenuContent(_, _, _)

\* the loop of CmdMenuConfig.to_json_obj from item i on
MenuContent(items, i, content) ==
  IF i > Len(items) THEN content
  ELSE Let(DictSet(content, items[i].key[1], ToJson(items[i])), LAMBDA c :
         MenuContent(items, i + 1, c))

\* a plausible slip: the items are serialized last to first
MenuToJson_Reversed(o) ==
  MenuContent([i \in 1..Len(o.items) |-> o.items[Len(o.items) + 1 - i]], 1,
              JDict(<<>>, <<>>))

\* CmdMenuConfig.to_json_obj(): the value part
MenuToJson(o) == MenuContent(o.items, 1, JDict(<<>>, <<>>))

\* to_json_obj()[1] of any ConfigObject
ToJson(o) ==
  CASE o.cls = "CmdEntryConfig" -> CmdEntryToJson(o)
    [] o.cls = "CmdTextConfig" -> TextConfigToJson(o)
    [] o.cls = "CmdTextLine" -> TextLineToJson(o)
    [] o.cls = "CmdMenuConfig" -> MenuToJson(o)

\* to_json_obj()[0]
ToJsonKey(o) == o.key

---------------------------------------------------------------------------
(* CmdConfigBase *)

T1 == <<"T","1">>
NoCommands ==
  <<"(","N","o"," ","c","o","m","m","a","n","d","s"," ",
    "c","o","n","f","i","g","u","r","e","d",")">>

\* a plausible slip: the placeholder entry is left out
GenerateEmptyConfig_NoEntry(e) == CmdMenuConfig(None, JDict(<<>>, <<>>), e).obj

\* CmdConfigBase._generate_empty_config(): the new root_menu
GenerateEmptyConfig(e) ==
  CmdMenuConfig(None, JDict(<<T1>>, <<JStr(NoCommands)>>), e).obj

\* a plausible slip: root_menu is reset before the new tree is built
CfgFromJsonObj_ResetsFirst(root, j, e) ==
  IF j.t = "dict"
    THEN Let(CmdMenuConfig(None, j, e), LAMBDA r :
           [root |-> IF r.err = "" THEN r.obj ELSE GenerateEmptyConfig(e),
            err |-> r.err, calls |-> r.calls])
    ELSE [root |-> GenerateEmptyConfig(e), err |-> "TypeError:InvalidRootType",
          calls |-> <<>>]

\* CmdConfigBase._from_json_obj(json_obj): root_menu is assigned only when
\* CmdMenuConfig returned
CfgFromJsonObj(root, j, e) ==
  IF j.t = "dict"
    THEN Let(CmdMenuConfig(None, j, e), LAMBDA r :
           [root |-> IF r.err = "" THEN r.obj ELSE root,
            err |-> r.err, calls |-> r.calls])
    ELSE [root |-> root, err |-> "TypeError:InvalidRootType", calls |-> <<>>]

\* CmdConfigBase.loads(json_str): json.loads, then _from_json_obj
LoadsResult(root, text, e) ==
  IF text.t = "malformed"
    THEN [root |-> root, err |-> "JSONDecodeError", calls |-> <<>>]
    ELSE CfgFromJsonObj(root, text, e)

\* CmdConfigBase.reload()
ReloadResult(fp, root, f, e) ==
  IF fp = None \/ f.t = "nofile"
    THEN [root |-> GenerateEmptyConfig(e), err |-> "", calls |-> <<>>]
    ELSE LoadsResult(root, f, e)

\* a plausible slip: the check of file_path is missing
SaveResult_NoCheck(fp, root, f) == [fs |-> ToJson(root), err |-> ""]

\* CmdConfigBase.save(): the resource after it, and the exception
SaveResult(fp, root, f) ==
  IF fp = None
    THEN [fs |-> f, err |-> "TypeError:NoSourcePath"]
    ELSE [fs |-> ToJson(root), err |-> ""]

\* CmdConfigBase.saves(): the object handed to json.dumps
SavesResult(root) == ToJson(root)

RECURSIVE TextPaths(_)
\* the text blocks of a tree, each as the item indexes that lead to it
TextPaths(o) ==
  IF o.cls = "CmdTextConfig" THEN {<<>>}
  ELSE IF o.cls = "CmdMenuConfig"
    THEN UNION {{<<i>> \o p : p \in TextPaths(o.items[i])} : i \in 1..Len(o.items)}
    ELSE {}

RECURSIVE StrAt(_, _, _)
\* str() of the text block at path p of the tree o
StrAt(o, p, e) ==
  IF p = <<>> THEN TextConfigStr(o, e)
  ELSE Let(StrAt(o.items[p[1]], Tail(p), e), LAMBDA r :
         [obj |-> [o EXCEPT !.items[p[1]] = r.obj], calls |-> r.calls,
          ret |-> r.ret])

---------------------------------------------------------------------------
(* Inputs *)

MaxParts == 3
MaxLines == 2
MaxDepth == 2

Keys == {<<"A">>, <<"B">>}
KeyOpts == {Some(k) : k \in Keys}
Envs == {"1", "2"}
Path == <<"c","f","g">>

SeqsUpTo(S, n) == UNION {[1..m -> S] : m \in 0..n}

\* raw command strings: up to MaxParts of these pieces, one after the other
Parts ==
  {<<"x">>, <<"&">>, <<"r","e","a">>, <<"d">>, <<"D">>, <<"i","n","g">>,
   AmpRead, <<"&","R","E","A","D">>, <<"&","r","E","a">>}
RawStrings == {Concat(ps) : ps \in SeqsUpTo(Parts, MaxParts)}

Echo == <<"e","c","h","o">>
Date == <<"d","a","t","e">>
EchoW == JDict(<<Echo>>, <<JStr(<<"w">>)>>)
DateEcho == JDict(<<Date, Echo>>, <<JStr(<<"/","t">>), JStr(<<"w">>)>>)

\* well-formed line-specs and node-specs
LineSpecs == {JStr(<<"h">>), EchoW, DateEcho}
TextSpecs == {JList(ls) : ls \in SeqsUpTo(LineSpecs, MaxLines)}
CmdSpecs ==
  {JStr(<<"x">>), JStr(<<"r","e","a","d">>), JStr(<<"x">> \o AmpRead),
   JStr(<<"x","&","R","e","A","D">>), JStr(AmpRead \o <<"&","R","E","A","D">>)}
ShallowSpec == JList(<<EchoW>>)

KeyPairs == {kk \in Keys \X Keys : kk[1] # kk[2]}

\* menus over the node-specs sub: empty, one entry, or two entries of which
\* one is ShallowSpec
Menus(sub) ==
  {JDict(<<>>, <<>>)}
  \cup {JDict(<<k>>, <<v>>) : k \in Keys, v \in sub}
  \cup {JDict(kk, <<v, ShallowSpec>>) : kk \in KeyPairs, v \in sub}
  \cup {JDict(kk, <<ShallowSpec, v>>) : kk \in KeyPairs, v \in sub}

RECURSIVE NodeSpecs(_)
\* the well-formed node-specs nested to depth d
NodeSpecs(d) ==
  IF d = 0 THEN CmdSpecs \cup TextSpecs
  ELSE LET sub == NodeSpecs(d - 1) IN sub \cup Menus(sub)

\* values of every JSON type, as a constructor called directly may get them
Scalars == {JInt(<<"5">>), JBool(<<"T","r","u","e">>), JNull}
LineValues ==
  LineSpecs \cup Scalars
  \cup {JList(<<JStr(<<"h">>)>>), JDict(<<Echo>>, <<JInt(<<"5">>)>>)}
AnyValues ==
  {JStr(<<>>), JStr(<<"h","i">>)} \cup LineValues
  \cup {JList(ls) : ls \in SeqsUpTo(LineValues, MaxLines)}
  \cup {JDict(<<Echo, Date>>, <<JStr(<<"w">>), JList(<<JStr(<<"h">>)>>)>>)}

---------------------------------------------------------------------------
(* Operations on one ConfigObject *)

NoTree ==
  /\ file_path = None
  /\ root_menu = NoObject
  /\ fs = NoFile

InitInput(ks, ds) ==
  /\ NoTree
  /\ env = "1"
  /\ calls = <<>>
  /\ op = "input"
  /\ err = ""
  /\ ret = NoValue
  /\ retKey = None
  /\ key \in ks
  /\ data \in ds
  /\ obj = NoObject

Constructed(name, r, e) ==
  /\ op' = name
  /\ obj' = r.obj
  /\ err' = e
  /\ calls' = r.calls
  /\ ret' = NoValue
  /\ retKey' = None
  /\ UNCHANGED <<file_path, root_menu, fs, env, key, data>>

\* CmdEntryConfig(key, data)
NewCmdEntry ==
  /\ op = "input"
  /\ data.t = "str"
  /\ Constructed("CmdEntryConfig",
                 [obj |-> CmdEntryConfig(key, data.s), calls |-> <<>>], "")

\* CmdTextLine(data)
NewTextLine ==
  /\ op = "input"
  /\ Constructed("CmdTextLine", CmdTextLine(data, env), "")

\* CmdTextConfig(key, data)
NewTextConfig ==
  /\ op = "input"
  /\ \E r \in {CmdTextConfig(key, data, env)} :
       Constructed("CmdTextConfig", r, r.err)

\* CmdMenuConfig(key, data)
NewMenuConfig ==
  /\ op = "input"
  /\ \E r \in {CmdMenuConfig(key, data, env)} :
       Constructed("CmdMenuConfig", r, r.err)

\* ConfigObject.from_json_obj(key, data)
CallFromJsonObj ==
  /\ op = "input"
  /\ \E r \in {FromJsonObj(key, data, env)} :
       Constructed("from_json_obj", r, r.err)

\* obj.to_json_obj()
CallToJsonObj ==
  /\ obj.cls # "none"
  /\ op # "to_json_obj"
  /\ op' = "to_json_obj"
  /\ ret' = ToJson(obj)
  /\ retKey' = ToJsonKey(obj)
  /\ err' = ""
  /\ calls' = <<>>
  /\ UNCHANGED <<file_path, root_menu, fs, env, key, data, obj>>

\* str(obj) of a text line or a text block
CallStr ==
  /\ obj.cls \in {"CmdTextLine", "CmdTextConfig"}
  /\ \E r \in {IF obj.cls = "CmdTextLine" THEN TextLineStr(obj, env)
                                          ELSE TextConfigStr(obj, env)} :
        /\ obj' = r.obj
        /\ calls' = r.calls
        /\ ret' = JStr(r.ret)
  /\ op' = "str"
  /\ err' = ""
  /\ retKey' = None
  /\ UNCHANGED <<file_path, root_menu, fs, env, key, data>>

\* the world changes: the same command line now prints something else
WorldChanges ==
  /\ op # "input"
  /\ \E e \in Envs \ {env} : env' = e
  /\ op' = "world"
  /\ calls' = <<>>
  /\ err' = ""
  /\ ret' = NoValue
  /\ retKey' = None
  /\ UNCHANGED <<file_path, root_menu, fs, key, data, obj>>

InitCmd == InitInput(KeyOpts, {JStr(s) : s \in RawStrings})
NextCmd == NewCmdEntry \/ CallToJsonObj
SpecCmd == InitCmd /\ [][NextCmd]_vars

InitNode == InitInput(KeyOpts, NodeSpecs(MaxDepth))
NextNode == CallFromJsonObj \/ CallToJsonObj
SpecNode == InitNode /\ [][NextNode]_vars

InitText == InitInput(KeyOpts, AnyValues)
NextText ==
  \/ NewTextLine
  \/ NewTextConfig
  \/ NewMenuConfig
  \/ CallFromJsonObj
  \/ CallToJsonObj
  \/ CallStr
  \/ WorldChanges
SpecText == InitText /\ [][NextText]_vars

---------------------------------------------------------------------------
(* Operations on the config: a CmdConfigBase whose subclass keeps the base *)
(* class's _to_json_obj and _from_json_obj                                  *)

A == <<"A">>
B == <<"B">>

\* JSON texts handed to loads() or found in the file, by what they decode to
DocFlat ==
  JDict(<<B, A>>, <<JStr(<<"x","&","R","E","A","D">>), JList(<<JStr(<<"h">>), EchoW>>)>>)
DocNested ==
  JDict(<<A, B>>,
        <<JStr(<<"x">>),
          JDict(<<B>>, <<JDict(<<A, B>>, <<JList(<<DateEcho>>), JStr(AmpRead)>>)>>)>>)
DocEmpty == JDict(<<>>, <<>>)
DocBadNode == JDict(<<A, B>>, <<JList(<<EchoW>>), JInt(<<"5">>)>>)
DocBadDeep ==
  JDict(<<A, B>>, <<JStr(<<"x">>), JDict(<<A>>, <<JDict(<<B>>, <<JNull>>)>>)>>)
DocBadBool == JDict(<<A>>, <<JDict(<<B, A>>, <<JBool(<<"T","r","u","e">>), JStr(<<"x">>)>>)>>)
GoodDocs == {DocFlat, DocNested, DocEmpty}
BadNodeDocs == {DocBadNode, DocBadDeep, DocBadBool}
BadRootDocs == {JStr(<<"x">>), JList(<<JStr(<<"h">>)>>), JInt(<<"5">>), JNull}
Docs == GoodDocs \cup BadNodeDocs \cup BadRootDocs \cup {Malformed}

\* the state after CmdConfigBase.__init__(file_path) returned: reload() ran
Init ==
  /\ file_path \in {None, Some(Path)}
  /\ fs \in (IF file_path = None THEN {NoFile} ELSE {NoFile} \cup GoodDocs)
  /\ env = "1"
  /\ \E r \in {ReloadResult(file_path, NoObject, fs, env)} :
        /\ root_menu = r.root
        /\ calls = r.calls
        /\ err = r.err
  /\ op = "__init__"
  /\ ret = NoValue
  /\ retKey = None
  /\ key = None
  /\ data = NoValue
  /\ obj = NoObject

\* reload()
Reload ==
  \E r \in {ReloadResult(file_path, root_menu, fs, env)} :
     /\ root_menu' = r.root
     /\ err' = r.err
     /\ calls' = r.calls
     /\ op' = "reload"
     /\ ret' = NoValue
     /\ data' = IF file_path = None THEN NoValue ELSE fs
     /\ UNCHANGED <<file_path, fs, env, retKey, key, obj>>

\* loads(json_str)
Loads ==
  \E text \in Docs :
    \E r \in {LoadsResult(root_menu, text, env)} :
       /\ root_menu' = r.root
       /\ err' = r.err
       /\ calls' = r.calls
       /\ op' = "loads"
       /\ ret' = NoValue
       /\ data' = text
       /\ UNCHANGED <<file_path, fs, env, retKey, key, obj>>

\* save()
Save ==
  \E r \in {SaveResult(file_path, root_menu, fs)} :
     /\ fs' = r.fs
     /\ err' = r.err
     /\ calls' = <<>>
     /\ op' = "save"
     /\ ret' = NoValue
     /\ data' = NoValue
     /\ UNCHANGED <<file_path, root_menu, env, retKey, key, obj>>

\* saves()
Saves ==
  /\ ret' = SavesResult(root_menu)
  /\ err' = ""
  /\ calls' = <<>>
  /\ op' = "saves"
  /\ data' = NoValue
  /\ UNCHANGED <<file_path, root_menu, fs, env, retKey, key, obj>>

\* str(block) of a text block of the tree, as the menu executor prints it
Render ==
  \E p \in TextPaths(root_menu) :
    \E r \in {StrAt(root_menu, p, env)} :
       /\ root_menu' = r.obj
       /\ ret' = JStr(r.ret)
       /\ calls' = r.calls
       /\ err' = ""
       /\ op' = "str"
       /\ data' = NoValue
       /\ UNCHANGED <<file_path, fs, env, retKey, key, obj>>

\* another program writes the file
FileWritten ==
  /\ file_path # None
  /\ \E text \in Docs : fs' = text
  /\ fs' # fs
  /\ op' = "file"
  /\ err' = ""
  /\ calls' = <<>>
  /\ ret' = NoValue
  /\ data' = NoValue
  /\ UNCHANGED <<file_path, root_menu, env, retKey, key, obj>>

\* another program deletes the file
FileDeleted ==
  /\ file_path # None
  /\ fs # NoFile
  /\ fs' = NoFile
  /\ op' = "file"
  /\ err' = ""
  /\ calls' = <<>>
  /\ ret' = NoValue
  /\ data' = NoValue
  /\ UNCHANGED <<file_path, root_menu, env, retKey, key, obj>>

\* the world changes: the same command line now prints something else
RunnerChanges ==
  /\ \E e \in Envs \ {env} : env' = e
  /\ op' = "world"
  /\ err' = ""
  /\ calls' = <<>>
  /\ ret' = NoValue
  /\ data' = NoValue
  /\ UNCHANGED <<file_path, root_menu, fs, retKey, key, obj>>

Next ==
  \/ Reload
  \/ Loads
  \/ Save
  \/ Saves
  \/ Render
  \/ FileWritten
  \/ FileDeleted
  \/ RunnerChanges

Spec == Init /\ [][Next]_vars

---------------------------------------------------------------------------
(* Properties *)

\* s ends with "&read", compared case-insensitively
EndsWithAmpRead(s) ==
  /\ Len(s) >= 5
  /\ \A i \in 1..5 : LowerChar(s[Len(s) - 5 + i]) = AmpRead[i]

RECURSIVE Normalized(_)
\* a node-spec with every "&read" suffix of a command string in lower case
Normalized(v) ==
  CASE v.t = "str" ->
         IF EndsWithAmpRead(v.s)
           THEN JStr([i \in 1..Len(v.s) |->
                        IF i > Len(v.s) - 5 THEN AmpRead[i - (Len(v.s) - 5)] ELSE v.s[i]])
           ELSE v
    [] v.t = "dict" -> JDict(v.ks, [i \in 1..Len(v.xs) |-> Normalized(v.xs[i])])
    [] OTHER -> v

\* C1: from_json_obj(k, v) succeeds on every well-formed node-spec v, and
\* to_json_obj() of the result is (k, v) with the entries and elements in
\* their order, every "&read" suffix of a command string in lower case.
C1_RoundTrip ==
  /\ op = "from_json_obj" => err = "" /\ obj.cls # "none"
  /\ op = "to_json_obj" => retKey = key /\ ret = Normalized(data)

\* C1: the round trip of a two-entry menu whose first entry is a submenu, with
\* a mixed-case suffix somewhere that was normalized
C1_Witness ==
  /\ op = "to_json_obj"
  /\ data.t = "dict"
  /\ Len(data.ks) = 2
  /\ data.xs[1].t = "dict"
  /\ Len(data.xs[1].ks) = 2
  /\ ret # data

\* C2: read is true iff the raw string ends with "&read" compared
\* case-insensitively; then the command is the raw string without its last
\* 5 characters, otherwise the raw string; the kept characters are unchanged.
C2_SuffixDetection ==
  obj.cls = "CmdEntryConfig" =>
    /\ obj.read <=> EndsWithAmpRead(data.s)
    /\ obj.read =>
         /\ Len(obj.cmd) = Len(data.s) - 5
         /\ \A i \in 1..Len(obj.cmd) : obj.cmd[i] = data.s[i]
    /\ ~obj.read => obj.cmd = data.s

\* C2: "x&READ" gives command "x" and read = TRUE
C2_Witness ==
  /\ op = "CmdEntryConfig"
  /\ data.s = <<"x","&","R","E","A","D">>
  /\ obj.cmd = <<"x">>
  /\ obj.read

\* C3 as stated: the stored command never ends with the suffix.
C3_NeverEndsWithSuffix ==
  obj.cls = "CmdEntryConfig" => ~EndsWithAmpRead(obj.cmd)

\* C3 as amended: one suffix is stripped, so the stored command ends with the
\* suffix exactly when the raw string ended with it twice.
C3_OneSuffixStripped ==
  obj.cls = "CmdEntryConfig" =>
    (EndsWithAmpRead(obj.cmd) <=>
       /\ EndsWithAmpRead(data.s)
       /\ Len(data.s) >= 10
       /\ \A i \in 1..5 : LowerChar(data.s[Len(data.s) - 10 + i]) = AmpRead[i])

\* C3: a raw string with the suffix twice: one is left on the command
C3_Witness ==
  /\ op = "CmdEntryConfig"
  /\ obj.read
  /\ EndsWithAmpRead(obj.cmd)
  /\ Len(data.s) = 11

RECURSIVE DocCommandLines(_)
\* the command lines of the mapping-origin text lines of a document, in
\* document order
DocCommandLines(j) ==
  CASE j.t = "dict" -> Concat([i \in 1..Len(j.xs) |-> DocCommandLines(j.xs[i])])
    [] j.t = "list" ->
         Concat([i \in 1..Len(j.xs) |->
                   IF j.xs[i].t = "dict"
                     THEN [n \in 1..Len(j.xs[i].ks) |->
                             j.xs[i].ks[n] \o <<" ">> \o j.xs[i].xs[n].s]
                     ELSE <<>>])
    [] OTHER -> <<>>

C5_RenderNotCached ==
  (op = "str" /\ obj.cls = "CmdTextLine") =>
    /\ data.t = "str" => calls = <<>> /\ ret = JStr(data.s)
    /\ (data.t = "dict" /\ \A i \in 1..Len(data.xs) : data.xs[i].t = "str") =>
         /\ Len(calls) = Len(data.ks)
         /\ \A i \in 1..Len(data.ks) :
              calls[i] = data.ks[i] \o <<" ">> \o data.xs[i].s
         /\ ret = JStr(Join([i \in 1..Len(calls) |-> RunnerOutput(calls[i], env)],
                            <<"\n">>))

\* C5: a two-key line rendered after the world changed since it was built
C5_Witness ==
  /\ op = "str"
  /\ obj.cls = "CmdTextLine"
  /\ data = DateEcho
  /\ env = "2"
  /\ Len(calls) = 2
  /\ ret.s = <<"2",":">> \o calls[1] \o <<"\n">> \o <<"2",":">> \o calls[2]

DefaultTree ==
  [NoObject EXCEPT
     !.cls = "CmdMenuConfig",
     !.items = <<[NoObject EXCEPT !.cls = "CmdEntryConfig", !.key = <<T1>>,
                                  !.cmd = NoCommands]>>]

\* C6: reload() with file_path None or no file at file_path raises nothing
\* and replaces the root, whatever it was, with the default tree.
C6_ReloadDefault ==
  [][(op' = "reload" /\ (file_path = None \/ fs = NoFile)) =>
        (err' = "" /\ root_menu' = DefaultTree)]_vars

\* C6: reload() found no file at the path and installed the default tree
C6_Witness ==
  /\ op = "reload"
  /\ file_path # None
  /\ fs = NoFile
  /\ root_menu = DefaultTree

\* C7: save() with file_path None raises the TypeError, writes nothing and
\* leaves the root; saves() always returns the serialization of the root,
\* leaves the root and runs no command.
C7_SaveNeedsPath ==
  [][/\ (op' = "save" /\ file_path = None) =>
          (err' = "TypeError:NoSourcePath" /\ fs' = fs /\ root_menu' = root_menu)
     /\ op' = "saves" =>
          /\ err' = ""
          /\ ret' = ToJson(root_menu)
          /\ root_menu = DefaultTree => ret' = JDict(<<T1>>, <<JStr(NoCommands)>>)
          /\ root_menu' = root_menu
          /\ fs' = fs
          /\ calls' = <<>>]_vars

\* C7: save() failed on a config without a path that holds a loaded tree
C7_Witness ==
  /\ op = "save"
  /\ file_path = None
  /\ err = "TypeError:NoSourcePath"
  /\ Len(root_menu.items) = 2

JsonTypes == {"str", "list", "dict", "int", "bool", "NoneType"}

RECURSIVE HasInvalidNode(_)
\* some entry of the menu j, at any depth, is a number, a boolean or null
HasInvalidNode(j) ==
  \E i \in 1..Len(j.xs) :
    \/ j.xs[i].t \in {"int", "bool", "NoneType"}
    \/ j.xs[i].t = "dict" /\ HasInvalidNode(j.xs[i])

\* C8: loads()/reload() of JSON whose top level is no mapping, or with a
\* number, boolean or null as a menu entry at any depth, raises and leaves
\* the root as it was.
C8_LoadAllOrNothing ==
  [][(op' \in {"loads", "reload"} /\ data'.t \in JsonTypes) =>
        /\ data'.t # "dict" =>
             (err' = "TypeError:InvalidRootType" /\ root_menu' = root_menu)
        /\ (data'.t = "dict" /\ HasInvalidNode(data')) =>
             (err' = "TypeError:InvalidNodeType" /\ root_menu' = root_menu)]_vars

\* C8: loads() of a document with null three levels down failed and left the
\* tree loaded before
C8_Witness ==
  /\ op = "loads"
  /\ data = DocBadDeep
  /\ err = "TypeError:InvalidNodeType"
  /\ Len(root_menu.items) = 2

\* C9 as stated: CmdTextConfig of a value that is no array fails and yields
\* no text block.
C9_TextBlockRequiresArray ==
  (op = "CmdTextConfig" /\ data.t # "list") => (err # "" /\ obj = NoObject)

\* v is a line-spec: a string or a mapping from string to string
IsLineSpec(v) ==
  \/ v.t = "str"
  \/ v.t = "dict" /\ \A i \in 1..Len(v.xs) : v.xs[i].t = "str"

\* C10 as stated: a text line whose entry is no line-spec is rejected when it
\* is constructed, and so is a text block with such an element.
C10_TextLineChecksType ==
  /\ (op = "CmdTextLine" /\ ~IsLineSpec(data)) => err # ""
  /\ (op \in {"CmdTextConfig", "from_json_obj"} /\ data.t = "list"
        /\ \E i \in 1..Len(data.xs) : ~IsLineSpec(data.xs[i])) => err # ""

===========================================================================
